---- MODULE Spec2Model ----
(***************************************************************************)
(* A model of ipo_email.py: the weekly IPO report job.                     *)
(*                                                                         *)
(* main() runs four stages once, in order: get_upcoming_ipos (HTTP GET and *)
(* table scraping), filter_upcoming (date window), compose_email (plain    *)
(* and HTML bodies) and send_email (one SMTP_SSL session).  Any exception  *)
(* is caught once in main and turned into exit status 1.                   *)
(*                                                                         *)
(* Text is modelled as a sequence of tokens (strings); the tokens " " and  *)
(* "\n" are white space, "\n" is the line break.  String concatenation is  *)
(* \o.  A page is the sequence of its <tbody> elements, a <tbody> the      *)
(* sequence of its <tr> rows, a row the sequence of its <td> cells, a cell *)
(* the text of its single text node (tables are not nested).               *)
(* The clock `now` is the current date in the configured time zone.        *)
(***************************************************************************)
EXTENDS Integers, Sequences, FiniteSets, TLC

VARIABLES
    pc,             \* position of main: "fetch", "filter", "compose", "send",
                    \* "login", "sendmail", "with_exit", "done"
    env,            \* names of the required variables present in os.environ
    TIMEZONE,       \* value of the optional TIMEZONE variable ("" = unset)
    now,            \* the wall clock: current date [y, m, d]
    ticks,          \* number of midnights passed since the run started
    page,           \* what the calendar server answers to the GET
    all_ipos,       \* main: result of get_upcoming_ipos
    days_ahead,     \* argument of filter_upcoming
    today,          \* filter_upcoming: local `today`
    filter_tz,      \* filter_upcoming: local `tz`
    upcoming_ipos,  \* main: result of filter_upcoming
    compose_tz,     \* compose_email: local `tz`
    email_msg,      \* main: result of compose_email
    conn,           \* the SMTP_SSL connection: "none", "open", "closed"
    sent,           \* TRUE once the server accepted the message (sendmail returned)
    pending,        \* the exception propagating out of the with block ("none" if none)
    error,          \* the exception caught by main ("none" if none)
    exitStatus,     \* process exit status; NotExited while main is running
    httpGets,       \* number of requests.get calls
    smtpSessions,   \* number of SMTP_SSL(...) constructions
    stages          \* the stages started so far, in order

vars == <<pc, env, TIMEZONE, now, ticks, page, all_ipos, days_ahead, today, filter_tz,
          upcoming_ipos, compose_tz, email_msg, conn, sent, pending, error, exitStatus,
          httpGets, smtpSessions, stages>>

----------------------------------------------------------------------------
(* Bounds of the model *)

MaxTicks == 1        \* midnights that may pass during one run
MaxBodies == 2       \* <tbody> elements on a generated page
MaxPageRows == 3     \* <tr> rows on a generated page, over all its bodies
MaxIpos == 3         \* records handed to filter_upcoming / compose_email
MaxDaysAhead == 2    \* largest days_ahead tried on filter_upcoming alone

----------------------------------------------------------------------------
(* Text *)

Whitespace == {" ", "\n"}

RECURSIVE LStrip(_)
LStrip(t) == IF t # <<>> /\ Head(t) \in Whitespace THEN LStrip(Tail(t)) ELSE t

RECURSIVE RStrip(_)
RStrip(t) ==
    IF t # <<>> /\ t[Len(t)] \in Whitespace THEN RStrip(SubSeq(t, 1, Len(t) - 1)) ELSE t

\* cell.get_text(strip=True) of a cell holding one text node
get_text(cell) == RStrip(LStrip(cell))

\* text.count(tok)
CountTok(t, tok) == Cardinality({i \in DOMAIN t : t[i] = tok})

\* number of lines of a text, as len(text.split("\n"))
LineCount(t) == 1 + CountTok(t, "\n")

\* sep.join(parts)
RECURSIVE Join(_, _)
Join(sep, parts) ==
    IF parts = <<>> THEN <<>>
    ELSE IF Len(parts) = 1 THEN parts[1]
    ELSE parts[1] \o sep \o Join(sep, Tail(parts))

\* "".join(parts)
RECURSIVE Concat(_)
Concat(parts) == IF parts = <<>> THEN <<>> ELSE Head(parts) \o Concat(Tail(parts))

----------------------------------------------------------------------------
(* Dates: datetime.date, strptime("%b %d, %Y") and strftime("%B %d, %Y") *)

MonthAbbr == <<"Jan", "Feb", "Mar", "Apr", "May", "Jun",
               "Jul", "Aug", "Sep", "Oct", "Nov", "Dec">>
\* %b matches case-insensitively
MonthAbbrLower == <<"jan", "feb", "mar", "apr", "may", "jun",
                    "jul", "aug", "sep", "oct", "nov", "dec">>
MonthFull == <<"January", "February", "March", "April", "May", "June", "July",
               "August", "September", "October", "November", "December">>
DayUnpadded == <<"1", "2", "3", "4", "5", "6", "7", "8", "9", "10", "11", "12", "13", "14", "15", "16", "17", "18", "19", "20", "21", "22", "23", "24", "25", "26", "27", "28", "29", "30", "31">>
DayPadded == <<"01", "02", "03", "04", "05", "06", "07", "08", "09", "10", "11", "12", "13", "14", "15", "16", "17", "18", "19", "20", "21", "22", "23", "24", "25", "26", "27", "28", "29", "30", "31">>
\* the four-digit years of the model
YearDigits == <<"2024", "2025", "2026">>
YearValue == <<2024, 2025, 2026>>

IndexIn(seq, tok) == IF \E i \in DOMAIN seq : seq[i] = tok
                     THEN CHOOSE i \in DOMAIN seq : seq[i] = tok ELSE 0

IsLeap(y) == y % 4 = 0 /\ (y % 100 # 0 \/ y % 400 = 0)

DaysInMonth(y, m) ==
    IF m = 2 THEN (IF IsLeap(y) THEN 29 ELSE 28)
    ELSE IF m \in {4, 6, 9, 11} THEN 30 ELSE 31

RECURSIVE DaysBeforeMonth(_, _)
DaysBeforeMonth(y, m) ==
    IF m = 1 THEN 0 ELSE DaysBeforeMonth(y, m - 1) + DaysInMonth(y, m - 1)

DaysBeforeYear(y) ==
    LET y1 == y - 1 IN y1 * 365 + (y1 \div 4) - (y1 \div 100) + (y1 \div 400)

\* date.toordinal(): dates compare, and timedelta adds, by day number
ToOrdinal(dt) == DaysBeforeYear(dt.y) + DaysBeforeMonth(dt.y, dt.m) + dt.d

\* the date one day later
NextDay(dt) ==
    IF dt.d < DaysInMonth(dt.y, dt.m) THEN [dt EXCEPT !.d = dt.d + 1]
    ELSE IF dt.m < 12 THEN [y |-> dt.y, m |-> dt.m + 1, d |-> 1]
    ELSE [y |-> dt.y + 1, m |-> 1, d |-> 1]

NoDate == [y |-> 0, m |-> 0, d |-> 0]

\* datetime.strptime(date_str, "%b %d, %Y"): the text must be
\* <month abbreviation> <white space> <day> "," <white space> <4-digit year>
\* and name a day that exists.  ok = FALSE stands for the ValueError.
strptime(t) ==
    IF Len(t) # 6 THEN [ok |-> FALSE, date |-> NoDate]
    ELSE LET mA == IndexIn(MonthAbbr, t[1])
             mL == IndexIn(MonthAbbrLower, t[1])
             m == IF mA # 0 THEN mA ELSE mL
             dU == IndexIn(DayUnpadded, t[3])
             dP == IndexIn(DayPadded, t[3])
             d == IF dU # 0 THEN dU ELSE dP
             yi == IndexIn(YearDigits, t[6])
         IN IF m = 0 \/ d = 0 \/ yi = 0 \/ t[2] \notin Whitespace \/ t[4] # ","
               \/ t[5] \notin Whitespace
            THEN [ok |-> FALSE, date |-> NoDate]
            ELSE IF d > DaysInMonth(YearValue[yi], m)
            THEN [ok |-> FALSE, date |-> NoDate]
            ELSE [ok |-> TRUE, date |-> [y |-> YearValue[yi], m |-> m, d |-> d]]

\* parse_date: strptime, then tz.localize(...).date(), which keeps the date
parse_date(date_str) == strptime(date_str)

\* now.strftime('%B %d, %Y')
strftime(dt) ==
    <<MonthFull[dt.m], " ", DayPadded[dt.d], ",", " ",
      YearDigits[IndexIn(YearValue, dt.y)]>>

----------------------------------------------------------------------------
(* Configuration: os.environ *)

Required == {"GMAIL_USER", "GMAIL_PASS", "RECIPIENT"}

\* the values of the required variables, when present
EnvValue(name) ==
    CASE name = "GMAIL_USER" -> <<"sender@gmail.com">>
      [] name = "GMAIL_PASS" -> <<"app-password">>
      [] name = "RECIPIENT" -> <<"reader@example.org">>

\* the zone names pytz knows, among those of the model
KnownZones == {"America/New_York", "Europe/Berlin"}

\* os.getenv('TIMEZONE', 'America/New_York')
getenv_TIMEZONE(value) == IF value = "" THEN "America/New_York" ELSE value

----------------------------------------------------------------------------
(* get_upcoming_ipos *)

NoIpos == <<>>

\* a faulty RowAccepted: rows of more than 9 cells are skipped too
RowAcceptedEightOrNine(cells) == Len(cells) \in {8, 9}

\* `if len(cells) < 8: continue` lets through every row that has 8 cells or more
RowAccepted(cells) == ~(Len(cells) < 8)

\* the IndexError the try block would raise: cells[0] .. cells[7] must exist
RaisesIndexError(cells) == \E i \in 1..8 : i \notin DOMAIN cells

\* a faulty Revenue: the guard is off by one
RevenueOffByOne(cells) == IF Len(cells) > 9 THEN get_text(cells[9]) ELSE <<"-">>

\* cells[8].get_text(strip=True) if len(cells) > 8 else "-"
Revenue(cells) == IF Len(cells) > 8 THEN get_text(cells[9]) ELSE <<"-">>

\* the dictionary appended for a row
MakeRecord(cells) ==
    [date |-> get_text(cells[1]),
     symbol |-> get_text(cells[2]),
     company |-> get_text(cells[3]),
     exchange |-> get_text(cells[4]),
     price_range |-> get_text(cells[5]),
     shares_offered |-> get_text(cells[6]),
     deal_size |-> get_text(cells[7]),
     market_cap |-> get_text(cells[8]),
     revenue |-> Revenue(cells)]

\* the inner loop `for row in tbody.find_all("tr")`, from row i on
RECURSIVE ParseRows(_, _, _)
ParseRows(rows, i, ipos) ==
    IF i > Len(rows) THEN ipos
    ELSE IF ~RowAccepted(rows[i]) THEN ParseRows(rows, i + 1, ipos)
    ELSE IF RaisesIndexError(rows[i]) THEN ParseRows(rows, i + 1, ipos)
    ELSE ParseRows(rows, i + 1, Append(ipos, MakeRecord(rows[i])))

\* the outer loop `for tbody in bodies`, from body b on
RECURSIVE ParseBodies(_, _, _)
ParseBodies(bodies, b, ipos) ==
    IF b > Len(bodies) THEN ipos
    ELSE ParseBodies(bodies, b + 1, ParseRows(bodies[b], 1, ipos))

\* a faulty get_upcoming_ipos: a page without any usable row is an error too
get_upcoming_ipos_strict(response) ==
    IF response.status = "conn_error"
    THEN [raised |-> "ConnectionError", ipos |-> NoIpos]
    ELSE IF response.status # "ok"
    THEN [raised |-> "HTTPError", ipos |-> NoIpos]
    ELSE IF ParseBodies(response.bodies, 1, <<>>) = <<>>
    THEN [raised |-> "ValueError", ipos |-> NoIpos]
    ELSE [raised |-> "none", ipos |-> ParseBodies(response.bodies, 1, <<>>)]

\* get_upcoming_ipos(): what it raises ("none" when it returns) and what it returns
get_upcoming_ipos(response) ==
    IF response.status = "conn_error"
    THEN [raised |-> "ConnectionError", ipos |-> NoIpos]
    ELSE IF response.status # "ok"
    THEN [raised |-> "HTTPError", ipos |-> NoIpos]
    ELSE IF response.bodies = <<>>
    THEN [raised |-> "ValueError", ipos |-> NoIpos]
    ELSE [raised |-> "none", ipos |-> ParseBodies(response.bodies, 1, <<>>)]

----------------------------------------------------------------------------
(* filter_upcoming *)

\* a faulty InWindow: the last day of the window is left out
InWindowExclusive(ipo_date, today_, end_date) ==
    today_ <= ipo_date /\ ipo_date < end_date

\* a faulty InWindow: dates before today are let through
InWindowNoLowerBound(ipo_date, today_, end_date) ==
    ipo_date <= end_date

\* today <= ipo_date <= end_date
InWindow(ipo_date, today_, end_date) ==
    today_ <= ipo_date /\ ipo_date <= end_date

\* the loop `for ipo in ipos`, from record i on
RECURSIVE FilterLoop(_, _, _, _, _)
FilterLoop(ipos, i, today_, end_date, upcoming) ==
    IF i > Len(ipos) THEN upcoming
    ELSE LET parsed == parse_date(ipos[i].date)
         IN IF ~parsed.ok
            THEN FilterLoop(ipos, i + 1, today_, end_date, upcoming)
            ELSE IF InWindow(ToOrdinal(parsed.date), today_, end_date)
            THEN FilterLoop(ipos, i + 1, today_, end_date, Append(upcoming, ipos[i]))
            ELSE FilterLoop(ipos, i + 1, today_, end_date, upcoming)

\* filter_upcoming(ipos, days_ahead) with tz = None, called when the clock shows `clock`
filter_upcoming(ipos, days, zone_value, clock) ==
    LET tz == getenv_TIMEZONE(zone_value)
    IN IF tz \notin KnownZones
       THEN [raised |-> "UnknownTimeZoneError", tz |-> tz, today |-> NoDate,
             upcoming |-> NoIpos]
       ELSE [raised |-> "none", tz |-> tz, today |-> clock,
             upcoming |-> FilterLoop(ipos, 1, ToOrdinal(clock),
                                     ToOrdinal(clock) + days, <<>>)]

----------------------------------------------------------------------------
(* compose_email *)

NoMsg == [subject |-> <<>>, from |-> <<>>, to |-> <<>>, plain |-> <<>>, html |-> <<>>]

Subject(subject_date) == <<"Upcoming IPOs - Week of ">> \o subject_date

\* the sentence of the empty report
NoIposSentence(subject_date) ==
    <<"There are no IPOs scheduled within the upcoming week as of ">>
        \o subject_date \o <<".">>

\* a faulty Header: the column titles alone, without the line of dashes
HeaderTitlesOnly ==
    <<"IPO Date | Symbol | Company | Exchange | Price Range | Shares Offered | Deal Size | Market Cap">>

\* the first element of `lines`: the column titles, a line break and 80 dashes
Header ==
    <<"IPO Date | Symbol | Company | Exchange | Price Range | Shares Offered | Deal Size | Market Cap",
      "\n", "--------------------------------------------------------------------------------">>

\* the plain-text line of one record
PlainLine(ipo) ==
    ipo.date \o <<" | ">> \o ipo.symbol \o <<" | ">> \o ipo.company \o <<" | ">>
        \o ipo.exchange \o <<" | ">> \o ipo.price_range \o <<" | ">>
        \o ipo.shares_offered \o <<" | ">> \o ipo.deal_size \o <<" | ">> \o ipo.market_cap

\* the HTML row of one record
HtmlRow(ipo) ==
    <<"<tr>">>
        \o <<"<td>">> \o ipo.date \o <<"</td>">>
        \o <<"<td>">> \o ipo.symbol \o <<"</td>">>
        \o <<"<td>">> \o ipo.company \o <<"</td>">>
        \o <<"<td>">> \o ipo.exchange \o <<"</td>">>
        \o <<"<td>">> \o ipo.price_range \o <<"</td>">>
        \o <<"<td>">> \o ipo.shares_offered \o <<"</td>">>
        \o <<"<td>">> \o ipo.deal_size \o <<"</td>">>
        \o <<"<td>">> \o ipo.market_cap \o <<"</td>">>
        \o <<"</tr>">>

\* the loop `for ipo in ipos`: the list `lines`
RECURSIVE PlainLines(_, _, _)
PlainLines(ipos, i, lines) ==
    IF i > Len(ipos) THEN lines
    ELSE PlainLines(ipos, i + 1, Append(lines, PlainLine(ipos[i])))

\* the loop `for ipo in ipos`: the list `html_rows`
RECURSIVE HtmlRows(_, _, _)
HtmlRows(ipos, i, html_rows) ==
    IF i > Len(ipos) THEN html_rows
    ELSE HtmlRows(ipos, i + 1, Append(html_rows, HtmlRow(ipos[i])))

PlainBody(ipos) == Join(<<"\n">>, PlainLines(ipos, 1, <<Header>>))

HtmlBody(ipos, subject_date) ==
    <<"<html><body>", "<p>Upcoming IPOs scheduled within the next week as of ">>
        \o subject_date \o <<":</p>">>
        \o <<"<table border='1' cellpadding='5' cellspacing='0'>", "<thead>", "<tr>",
             "<th>IPO Date</th><th>Symbol</th><th>Company</th><th>Exchange</th>",
             "<th>Price Range</th><th>Shares Offered</th><th>Deal Size</th><th>Market Cap</th>",
             "</tr>", "</thead>", "<tbody>">>
        \o Concat(HtmlRows(ipos, 1, <<>>))
        \o <<"</tbody>", "</table>",
             "<p style='margin-top:1em;'>This information is sourced from StockAnalysis' IPO calendar. ...</p>",
             "</body></html>">>

\* compose_email(ipos) with tz = None, called when the clock shows `clock`
compose_email(ipos, zone_value, clock, environ) ==
    LET tz == getenv_TIMEZONE(zone_value)
        subject_date == strftime(clock)
        headers == [NoMsg EXCEPT !.subject = Subject(subject_date),
                                 !.from = EnvValue("GMAIL_USER"),
                                 !.to = EnvValue("RECIPIENT")]
    IN IF tz \notin KnownZones
       THEN [raised |-> "UnknownTimeZoneError", tz |-> tz, msg |-> NoMsg]
       ELSE IF "GMAIL_USER" \notin environ \/ "RECIPIENT" \notin environ
       THEN [raised |-> "KeyError", tz |-> tz, msg |-> NoMsg]
       ELSE IF ipos = <<>>
       THEN [raised |-> "none", tz |-> tz,
             msg |-> [headers EXCEPT !.plain = NoIposSentence(subject_date),
                                     !.html = <<"<p>">> \o NoIposSentence(subject_date)
                                                  \o <<"</p>">>]]
       ELSE [raised |-> "none", tz |-> tz,
             msg |-> [headers EXCEPT !.plain = PlainBody(ipos),
                                     !.html = HtmlBody(ipos, subject_date)]]

----------------------------------------------------------------------------
(* Inputs of the model *)

DAYS_AHEAD == 7

SeqsUpTo(S, n) == UNION {[1..k -> S] : k \in 0..n}

\* sequences of exactly nb bodies over the rows S with at most rowsLeft rows in all
RECURSIVE BodySeqs(_, _, _)
BodySeqs(S, nb, rowsLeft) ==
    IF nb = 0 THEN {<<>>}
    ELSE UNION {{<<b>> \o rest : rest \in BodySeqs(S, nb - 1, rowsLeft - Len(b))} :
                b \in SeqsUpTo(S, rowsLeft)}

\* the raw text of the cells of a calendar row after the first two
CellText(i) ==
    CASE i = 3 -> <<"Acme", " ", "Corp">>
      [] i = 4 -> <<"NYSE">>
      [] i = 5 -> <<"$10.00", " ", "-", " ", "$12.00">>
      [] i = 6 -> <<"5,000,000">>
      [] i = 7 -> <<"$55.0M">>
      [] i = 8 -> <<"$400.0M">>
      [] i = 9 -> <<"$20.0M">>
      [] OTHER -> <<"+">>

\* a <tr> with n <td> cells: the date, the symbol, then the other columns;
\* the markup surrounds the date with white space
Row(date_text, symbol, n) ==
    [i \in 1..n |-> IF i = 1 THEN <<"\n", " ">> \o date_text \o <<" ">>
                    ELSE IF i = 2 THEN <<symbol>>
                    ELSE CellText(i)]

\* a record as get_upcoming_ipos builds it from a row of 8 cells
Ipo(date_text, symbol) ==
    [date |-> date_text, symbol |-> <<symbol>>, company |-> CellText(3),
     exchange |-> CellText(4), price_range |-> CellText(5),
     shares_offered |-> CellText(6), deal_size |-> CellText(7),
     market_cap |-> CellText(8), revenue |-> <<"-">>]

DateText(mon, day, year) == <<mon, " ", day, ",", " ", year>>

Response(status, bodies) == [status |-> status, bodies |-> bodies]

ErrorResponses == {Response("conn_error", <<>>), Response("http_error", <<>>)}

\* the dates a run may start on
StartDates == {[y |-> 2024, m |-> 2, d |-> 28], [y |-> 2025, m |-> 12, d |-> 31]}

\* the pages served to a whole run
MainPages ==
    LET short == Row(DateText("Feb", "28", "2024"), "SHRT", 7)
        first == Row(DateText("Feb", "28", "2024"), "FRST", 8)
        last == Row(DateText("Mar", "6", "2024"), "LAST", 9)
        late == Row(DateText("Mar", "8", "2024"), "LATE", 10)
        tbd == Row(<<"TBD">>, "TBDX", 8)
        jan == Row(DateText("Jan", "07", "2026"), "JANU", 8)
    IN {<<>>,
        <<<<>>>>,
        <<<<short>>, <<>>>>,
        <<<<late, tbd>>>>,
        <<<<first, short, last>>, <<late, jan>>>>,
        <<<<jan>>, <<first>>>>}

MainResponses == ErrorResponses \cup {Response("ok", b) : b \in MainPages}

\* the rows of the pages handed to get_upcoming_ipos alone
FetchRows ==
    {Row(DateText("Aug", "4", "2025"), "SEVN", 7),
     Row(DateText("Aug", "4", "2025"), "EGHT", 8),
     Row(DateText("Aug", "5", "2025"), "NINE", 9),
     Row(<<"TBD">>, "TENC", 10)}

FetchPages == UNION {BodySeqs(FetchRows, nb, MaxPageRows) : nb \in 0..MaxBodies}

FetchResponses == ErrorResponses \cup {Response("ok", b) : b \in FetchPages}

\* the records handed to filter_upcoming alone, and the dates it is called on
FilterTodays == {[y |-> 2024, m |-> 2, d |-> 27], [y |-> 2024, m |-> 2, d |-> 28]}

FilterDateTexts ==
    {DateText("Feb", "27", "2024"), DateText("Feb", "28", "2024"),
     DateText("feb", "29", "2024"), DateText("Mar", "1", "2024"),
     DateText("Mar", "02", "2024"), DateText("Feb", "30", "2024"),
     DateText("February", "28", "2024"), <<"TBD">>}

FilterRecords == {Ipo(t, "SYMB") : t \in FilterDateTexts}

\* the records handed to compose_email alone
ComposeRecords ==
    {Ipo(DateText("Feb", "28", "2024"), "AAAA"),
     Ipo(DateText("Mar", "1", "2024"), "BBBB"),
     [Ipo(DateText("Mar", "1", "2024"), "CCCC") EXCEPT !.company = <<"Two", "\n", "Lines">>],
     [Ipo(DateText("Mar", "1", "2024"), "DDDD") EXCEPT !.company = <<"<tr>", "Inc">>]}

Zones == {"", "Europe/Berlin", "Mars/Olympus"}

----------------------------------------------------------------------------
(* main *)

\* the state in which a run starts, but for env, TIMEZONE, now, page and days_ahead
Fresh ==
    /\ ticks = 0
    /\ all_ipos = <<>>
    /\ today = NoDate
    /\ filter_tz = ""
    /\ upcoming_ipos = <<>>
    /\ compose_tz = ""
    /\ email_msg = NoMsg
    /\ conn = "none"
    /\ sent = FALSE
    /\ pending = "none"
    /\ error = "none"
    /\ exitStatus = -1
    /\ smtpSessions = 0

Init ==
    /\ pc = "fetch"
    /\ env \in SUBSET Required
    /\ TIMEZONE \in Zones
    /\ now \in StartDates
    /\ page \in MainResponses
    /\ days_ahead = DAYS_AHEAD
    /\ httpGets = 0
    /\ stages = <<>>
    /\ Fresh

\* a faulty Abort: the failure is logged and the pipeline is started again
AbortAndRetry(exc) ==
    /\ error' = exc
    /\ pc' = "fetch"
    /\ exitStatus' = exitStatus

\* `except Exception as exc: logging.exception(...); sys.exit(1)`
Abort(exc) ==
    /\ error' = exc
    /\ pc' = "done"
    /\ exitStatus' = 1

\* main returns: the process ends with status 0
Return ==
    /\ pc' = "done"
    /\ exitStatus' = 0
    /\ UNCHANGED error

\* a midnight passes
Tick ==
    /\ pc # "done"
    /\ ticks < MaxTicks
    /\ now' = NextDay(now)
    /\ ticks' = ticks + 1
    /\ UNCHANGED <<pc, env, TIMEZONE, page, all_ipos, days_ahead, today, filter_tz,
                   upcoming_ipos, compose_tz, email_msg, conn, sent, pending, error,
                   exitStatus, httpGets, smtpSessions, stages>>

\* all_ipos = get_upcoming_ipos()
FetchOk ==
    /\ pc = "fetch"
    /\ get_upcoming_ipos(page).raised = "none"
    /\ all_ipos' = get_upcoming_ipos(page).ipos
    /\ httpGets' = httpGets + 1
    /\ stages' = Append(stages, "fetch")
    /\ pc' = "filter"
    /\ UNCHANGED <<env, TIMEZONE, now, ticks, page, days_ahead, today, filter_tz,
                   upcoming_ipos, compose_tz, email_msg, conn, sent, pending, error,
                   exitStatus, smtpSessions>>

\* get_upcoming_ipos() raises
FetchRaises ==
    /\ pc = "fetch"
    /\ get_upcoming_ipos(page).raised # "none"
    /\ httpGets' = httpGets + 1
    /\ stages' = Append(stages, "fetch")
    /\ Abort(get_upcoming_ipos(page).raised)
    /\ UNCHANGED <<env, TIMEZONE, now, ticks, page, all_ipos, days_ahead, today,
                   filter_tz, upcoming_ipos, compose_tz, email_msg, conn, sent, pending,
                   smtpSessions>>

\* upcoming_ipos = filter_upcoming(all_ipos, days_ahead=7)
FilterOk ==
    /\ pc = "filter"
    /\ LET r == filter_upcoming(all_ipos, days_ahead, TIMEZONE, now)
       IN /\ r.raised = "none"
          /\ today' = r.today
          /\ filter_tz' = r.tz
          /\ upcoming_ipos' = r.upcoming
    /\ stages' = Append(stages, "filter")
    /\ pc' = "compose"
    /\ UNCHANGED <<env, TIMEZONE, now, ticks, page, all_ipos, days_ahead, compose_tz,
                   email_msg, conn, sent, pending, error, exitStatus, httpGets,
                   smtpSessions>>

\* filter_upcoming raises (the configured time zone is unknown)
FilterRaises ==
    /\ pc = "filter"
    /\ LET r == filter_upcoming(all_ipos, days_ahead, TIMEZONE, now)
       IN /\ r.raised # "none"
          /\ filter_tz' = r.tz
          /\ Abort(r.raised)
    /\ stages' = Append(stages, "filter")
    /\ UNCHANGED <<env, TIMEZONE, now, ticks, page, all_ipos, days_ahead, today,
                   upcoming_ipos, compose_tz, email_msg, conn, sent, pending, httpGets,
                   smtpSessions>>

\* email_msg = compose_email(upcoming_ipos)
ComposeOk ==
    /\ pc = "compose"
    /\ LET r == compose_email(upcoming_ipos, TIMEZONE, now, env)
       IN /\ r.raised = "none"
          /\ compose_tz' = r.tz
          /\ email_msg' = r.msg
    /\ stages' = Append(stages, "compose")
    /\ pc' = "send"
    /\ UNCHANGED <<env, TIMEZONE, now, ticks, page, all_ipos, days_ahead, today,
                   filter_tz, upcoming_ipos, conn, sent, pending, error, exitStatus,
                   httpGets, smtpSessions>>

\* compose_email raises (KeyError: GMAIL_USER or RECIPIENT is not set)
ComposeRaises ==
    /\ pc = "compose"
    /\ LET r == compose_email(upcoming_ipos, TIMEZONE, now, env)
       IN /\ r.raised # "none"
          /\ compose_tz' = r.tz
          /\ Abort(r.raised)
    /\ stages' = Append(stages, "compose")
    /\ UNCHANGED <<env, TIMEZONE, now, ticks, page, all_ipos, days_ahead, today,
                   filter_tz, upcoming_ipos, email_msg, conn, sent, pending, httpGets,
                   smtpSessions>>

----------------------------------------------------------------------------
(* send_email *)

\* a faulty EnvComplete: the password is read with a default
EnvCompleteButPassword(environ) ==
    "GMAIL_USER" \in environ /\ "RECIPIENT" \in environ

\* os.environ['GMAIL_USER'], os.environ['GMAIL_PASS'], os.environ['RECIPIENT']
\* all succeed
EnvComplete(environ) ==
    "GMAIL_USER" \in environ /\ "GMAIL_PASS" \in environ /\ "RECIPIENT" \in environ

\* send_email raises KeyError before it touches the network
SendMissingEnv ==
    /\ pc = "send"
    /\ ~EnvComplete(env)
    /\ stages' = Append(stages, "dispatch")
    /\ Abort("KeyError")
    /\ UNCHANGED <<env, TIMEZONE, now, ticks, page, all_ipos, days_ahead, today,
                   filter_tz, upcoming_ipos, compose_tz, email_msg, conn, sent, pending,
                   httpGets, smtpSessions>>

\* smtplib.SMTP_SSL('smtp.gmail.com', 465) connects
SendConnect ==
    /\ pc = "send"
    /\ EnvComplete(env)
    /\ stages' = Append(stages, "dispatch")
    /\ smtpSessions' = smtpSessions + 1
    /\ conn' = "open"
    /\ pc' = "login"
    /\ UNCHANGED <<env, TIMEZONE, now, ticks, page, all_ipos, days_ahead, today,
                   filter_tz, upcoming_ipos, compose_tz, email_msg, sent, pending, error,
                   exitStatus, httpGets>>

\* smtplib.SMTP_SSL(...) raises: no connection could be made
SendConnectRefused ==
    /\ pc = "send"
    /\ EnvComplete(env)
    /\ stages' = Append(stages, "dispatch")
    /\ smtpSessions' = smtpSessions + 1
    /\ Abort("OSError")
    /\ UNCHANGED <<env, TIMEZONE, now, ticks, page, all_ipos, days_ahead, today,
                   filter_tz, upcoming_ipos, compose_tz, email_msg, conn, sent, pending,
                   httpGets>>

\* smtplib.SMTP_SSL(...) raises: the server's greeting is not 220, and the
\* constructor closes the socket it had opened
SendGreetingRejected ==
    /\ pc = "send"
    /\ EnvComplete(env)
    /\ stages' = Append(stages, "dispatch")
    /\ smtpSessions' = smtpSessions + 1
    /\ conn' = "closed"
    /\ Abort("SMTPConnectError")
    /\ UNCHANGED <<env, TIMEZONE, now, ticks, page, all_ipos, days_ahead, today,
                   filter_tz, upcoming_ipos, compose_tz, email_msg, sent, pending,
                   httpGets>>

\* server.login(gmail_user, gmail_password) returns
LoginOk ==
    /\ pc = "login"
    /\ pc' = "sendmail"
    /\ UNCHANGED <<env, TIMEZONE, now, ticks, page, all_ipos, days_ahead, today,
                   filter_tz, upcoming_ipos, compose_tz, email_msg, conn, sent, pending,
                   error, exitStatus, httpGets, smtpSessions, stages>>

\* server.login raises: the with block is left through __exit__
LoginFails ==
    /\ pc = "login"
    /\ pending' = "SMTPAuthenticationError"
    /\ pc' = "with_exit"
    /\ UNCHANGED <<env, TIMEZONE, now, ticks, page, all_ipos, days_ahead, today,
                   filter_tz, upcoming_ipos, compose_tz, email_msg, conn, sent, error,
                   exitStatus, httpGets, smtpSessions, stages>>

\* server.sendmail(gmail_user, [recipient], msg.as_string()) returns: the
\* server has accepted the message for the recipient
SendmailOk ==
    /\ pc = "sendmail"
    /\ sent' = TRUE
    /\ pc' = "with_exit"
    /\ UNCHANGED <<env, TIMEZONE, now, ticks, page, all_ipos, days_ahead, today,
                   filter_tz, upcoming_ipos, compose_tz, email_msg, conn, pending, error,
                   exitStatus, httpGets, smtpSessions, stages>>

\* server.sendmail raises: nothing was accepted
SendmailFails ==
    /\ pc = "sendmail"
    /\ pending' = "SMTPException"
    /\ pc' = "with_exit"
    /\ UNCHANGED <<env, TIMEZONE, now, ticks, page, all_ipos, days_ahead, today,
                   filter_tz, upcoming_ipos, compose_tz, email_msg, conn, sent, error,
                   exitStatus, httpGets, smtpSessions, stages>>

\* a faulty WithExit: no with block; quit() and close() are reached only when
\* login and sendmail raised nothing
WithExitSkippedOnError(reply) ==
    /\ pc = "with_exit"
    /\ conn' = IF pending # "none" THEN conn ELSE "closed"
    /\ IF pending # "none" THEN Abort(pending)
       ELSE IF reply = "refused" THEN Abort("SMTPResponseException")
       ELSE Return
    /\ UNCHANGED <<env, TIMEZONE, now, ticks, page, all_ipos, days_ahead, today,
                   filter_tz, upcoming_ipos, compose_tz, email_msg, sent, pending,
                   httpGets, smtpSessions, stages>>

\* the end of the with block, SMTP.__exit__: QUIT is sent and the socket is
\* closed in a finally clause.  A reply other than 221 raises
\* SMTPResponseException out of __exit__; a dropped connection is swallowed.
\* Then the exception in flight, if any, reaches main; else send_email logs
\* and returns, and so does main.
WithExit(reply) ==
    /\ pc = "with_exit"
    /\ conn' = "closed"
    /\ IF reply = "refused" THEN Abort("SMTPResponseException")
       ELSE IF pending # "none" THEN Abort(pending)
       ELSE Return
    /\ UNCHANGED <<env, TIMEZONE, now, ticks, page, all_ipos, days_ahead, today,
                   filter_tz, upcoming_ipos, compose_tz, email_msg, sent, pending,
                   httpGets, smtpSessions, stages>>

\* QUIT is answered 221
QuitOk == WithExit("221")

\* the server has dropped the connection: SMTPServerDisconnected is swallowed
QuitDisconnected == WithExit("disconnected")

\* QUIT is answered with another code
QuitRefused == WithExit("refused")

----------------------------------------------------------------------------
(* Specifications *)

\* the steps of main
Step ==
    \/ FetchOk
    \/ FetchRaises
    \/ FilterOk
    \/ FilterRaises
    \/ ComposeOk
    \/ ComposeRaises
    \/ SendMissingEnv
    \/ SendConnect
    \/ SendConnectRefused
    \/ SendGreetingRejected
    \/ LoginOk
    \/ LoginFails
    \/ SendmailOk
    \/ SendmailFails
    \/ QuitOk
    \/ QuitDisconnected
    \/ QuitRefused

Next == Tick \/ Step

\* one run of main
Spec == Init /\ [][Next]_vars

\* get_upcoming_ipos on generated pages
InitFetch ==
    /\ pc = "fetch"
    /\ env = Required
    /\ TIMEZONE = ""
    /\ now \in StartDates
    /\ page \in FetchResponses
    /\ days_ahead = DAYS_AHEAD
    /\ httpGets = 0
    /\ stages = <<>>
    /\ Fresh

NextFetch == FetchOk \/ FetchRaises

SpecFetch == InitFetch /\ [][NextFetch]_vars

\* filter_upcoming on generated records, for a fixed today
InitFilter ==
    /\ pc = "filter"
    /\ env = Required
    /\ TIMEZONE = ""
    /\ now \in FilterTodays
    /\ page = Response("ok", <<<<>>>>)
    /\ all_ipos \in SeqsUpTo(FilterRecords, MaxIpos)
    /\ days_ahead \in 0..MaxDaysAhead
    /\ httpGets = 1
    /\ stages = <<"fetch">>
    /\ ticks = 0
    /\ today = NoDate
    /\ filter_tz = ""
    /\ upcoming_ipos = <<>>
    /\ compose_tz = ""
    /\ email_msg = NoMsg
    /\ conn = "none"
    /\ sent = FALSE
    /\ pending = "none"
    /\ error = "none"
    /\ exitStatus = -1
    /\ smtpSessions = 0

NextFilter == FilterOk

SpecFilter == InitFilter /\ [][NextFilter]_vars

\* compose_email on generated records
InitCompose ==
    /\ pc = "compose"
    /\ env \in {Required, Required \ {"GMAIL_USER"}, Required \ {"GMAIL_PASS"}}
    /\ TIMEZONE = ""
    /\ now \in StartDates
    /\ page = Response("ok", <<<<>>>>)
    /\ all_ipos = <<>>
    /\ days_ahead = DAYS_AHEAD
    /\ httpGets = 1
    /\ stages = <<"fetch", "filter">>
    /\ ticks = 0
    /\ today = now
    /\ filter_tz = "America/New_York"
    /\ upcoming_ipos \in SeqsUpTo(ComposeRecords, MaxIpos)
    /\ compose_tz = ""
    /\ email_msg = NoMsg
    /\ conn = "none"
    /\ sent = FALSE
    /\ pending = "none"
    /\ error = "none"
    /\ exitStatus = -1
    /\ smtpSessions = 0

NextCompose == ComposeOk \/ ComposeRaises

SpecCompose == InitCompose /\ [][NextCompose]_vars

----------------------------------------------------------------------------
(* Properties *)

InSmtpSession == pc \in {"login", "sendmail", "with_exit"}

PipelineOrder == <<"fetch", "filter", "compose", "dispatch">>

\* the rows of a page in document order
FlatRows(bodies) == Concat(bodies)

\* the k-th smallest element of a set of numbers
Nth(S, k) == CHOOSE i \in S : Cardinality({j \in S : j <= i}) = k

\* the date n days after dt, by counting days
RECURSIVE DaysLater(_, _)
DaysLater(dt, n) == IF n = 0 THEN dt ELSE DaysLater(NextDay(dt), n - 1)

\* a date written as the calendar writes it, e.g. Aug 4, 2025
Written(dt) ==
    <<MonthAbbr[dt.m], " ", DayUnpadded[dt.d], ",", " ",
      YearDigits[IndexIn(YearValue, dt.y)]>>

\* C1: in a run where GMAIL_USER, GMAIL_PASS or RECIPIENT is not set, no SMTP
\* connection is ever opened, no login or sendmail is attempted, nothing is
\* sent, the run cannot get stuck before it ends, and it ends with a non-zero
\* exit status.
C1_MissingConfigNeverSends ==
    (Required \ env # {}) =>
        /\ smtpSessions = 0
        /\ conn = "none"
        /\ ~InSmtpSession
        /\ ~sent
        /\ pc # "done" => ENABLED Step
        /\ pc = "done" => exitStatus # 0 /\ exitStatus # -1

\* C1 witness: only GMAIL_PASS is missing, the report was composed, and the
\* run ended in send_email's KeyError with status 1.
C1_Witness ==
    /\ env = {"GMAIL_USER", "RECIPIENT"}
    /\ stages = PipelineOrder
    /\ pc = "done"
    /\ error = "KeyError"
    /\ exitStatus = 1
    /\ smtpSessions = 0

\* C2: every run ends either with the report submitted and status 0, or with
\* nothing submitted and status 1.
C2_AllOrNothing ==
    pc = "done" =>
        \/ sent /\ exitStatus = 0
        \/ ~sent /\ exitStatus = 1

\* the records filter_upcoming must keep: the date parses and lies in
\* [today, today + days_ahead]
C3_Kept(ipo) ==
    /\ parse_date(ipo.date).ok
    /\ ToOrdinal(today) <= ToOrdinal(parse_date(ipo.date).date)
    /\ ToOrdinal(parse_date(ipo.date).date) <= ToOrdinal(today) + days_ahead

\* C3: for a fixed today, filter_upcoming returns without error exactly the
\* subsequence of its input (order and duplicates kept) of the records whose
\* date parses and lies in [today, today + days_ahead]; counting days on the
\* calendar, a record dated today .. today + days_ahead is kept, one dated
\* today + days_ahead + 1 or today - 1 is dropped, and one whose date does not
\* parse is dropped.
C3_FilterWindow ==
    (pc = "compose" /\ stages = <<"fetch", "filter">>) =>
        /\ error = "none"
        /\ today = now
        /\ upcoming_ipos = SelectSeq(all_ipos, C3_Kept)
        /\ \A i \in DOMAIN all_ipos :
             LET ipo == all_ipos[i]
                 kept == \E j \in DOMAIN upcoming_ipos : upcoming_ipos[j] = ipo
             IN /\ (\E n \in 0..days_ahead : ipo.date = Written(DaysLater(today, n)))
                      => kept
                /\ ipo.date = Written(DaysLater(today, days_ahead + 1)) => ~kept
                /\ (\E t \in FilterTodays : NextDay(t) = today /\ ipo.date = Written(t))
                      => ~kept
                /\ ~parse_date(ipo.date).ok => ~kept

\* C3 witness: on Feb 28, 2024 with days_ahead = 2 the input <Mar 02 (a day
\* late), Feb 30 (no such day), Mar 1 (the last day), > gives <Mar 1>.
C3_Witness ==
    /\ pc = "compose"
    /\ today = [y |-> 2024, m |-> 2, d |-> 28]
    /\ days_ahead = 2
    /\ all_ipos = <<Ipo(DateText("Mar", "02", "2024"), "SYMB"),
                    Ipo(DateText("Feb", "30", "2024"), "SYMB"),
                    Ipo(DateText("Mar", "1", "2024"), "SYMB")>>
    /\ upcoming_ipos = <<Ipo(DateText("Mar", "1", "2024"), "SYMB")>>

\* the positions, in document order, of the rows that have at least 8 cells
C4_Wide(rows) == {i \in DOMAIN rows : Len(rows[i]) >= 8}

\* C4: for a fetched page with at least one table body, get_upcoming_ipos
\* returns without error one record per row of at least 8 cells, in document
\* order over all bodies; the 8 mandatory fields are the stripped texts of
\* cells 1-8 and revenue is the 9th cell's, or "-" when there is none.
C4_OneRecordPerWideRow ==
    (stages # <<>> /\ page.status = "ok" /\ page.bodies # <<>>) =>
        LET rows == FlatRows(page.bodies)
            wide == C4_Wide(rows)
        IN /\ error = "none"
           /\ pc = "filter"
           /\ Len(all_ipos) = Cardinality(wide)
           /\ \A k \in DOMAIN all_ipos :
                LET cells == rows[Nth(wide, k)]
                    ipo == all_ipos[k]
                IN /\ ipo.date = get_text(cells[1])
                   /\ ipo.symbol = get_text(cells[2])
                   /\ ipo.company = get_text(cells[3])
                   /\ ipo.exchange = get_text(cells[4])
                   /\ ipo.price_range = get_text(cells[5])
                   /\ ipo.shares_offered = get_text(cells[6])
                   /\ ipo.deal_size = get_text(cells[7])
                   /\ ipo.market_cap = get_text(cells[8])
                   /\ ipo.revenue = IF Len(cells) >= 9 THEN get_text(cells[9]) ELSE <<"-">>
                   /\ get_text(cells[1]) = LStrip(get_text(cells[1]))
                   /\ get_text(cells[1]) = RStrip(get_text(cells[1]))

\* C4 witness: a 7-cell and an 8-cell row in one body and a 9-cell row in the
\* next give the 8-cell row's record, with the placeholder, then the 9-cell
\* row's, with its revenue; the white space around the dates is gone.
C4_Witness ==
    /\ pc = "filter"
    /\ page.bodies = <<<<Row(DateText("Aug", "4", "2025"), "SEVN", 7),
                         Row(DateText("Aug", "4", "2025"), "EGHT", 8)>>,
                       <<Row(DateText("Aug", "5", "2025"), "NINE", 9)>>>>
    /\ all_ipos = <<Ipo(DateText("Aug", "4", "2025"), "EGHT"),
                    [Ipo(DateText("Aug", "5", "2025"), "NINE")
                        EXCEPT !.revenue = <<"$20.0M">>]>>

\* no row of the page has 8 cells or more
C5_NoWideRow ==
    \A b \in DOMAIN page.bodies : \A r \in DOMAIN page.bodies[b] :
        Len(page.bodies[b][r]) < 8

\* C5: once the fetch has run, it has failed with the structural error
\* (ValueError) exactly when the page was fetched and has no table body.  A
\* page with table bodies but no row of 8 cells is no error: the fetch returns
\* the empty sequence, the run goes on, the only report such a run sends is the
\* "no IPOs scheduled" sentence, and it ends with status 0 exactly when that
\* report was sent and the session closed cleanly.
C5_StructuralErrorOnlyWithoutBodies ==
    /\ stages # <<>> =>
         ((error = "ValueError") <=> (page.status = "ok" /\ page.bodies = <<>>))
    /\ (stages # <<>> /\ page.status = "ok" /\ page.bodies # <<>> /\ C5_NoWideRow) =>
         /\ all_ipos = <<>>
         /\ stages = <<"fetch">> => (pc = "filter" /\ error = "none")
         /\ sent =>
              /\ Len(email_msg.plain) = 8
              /\ email_msg.plain[1]
                   = "There are no IPOs scheduled within the upcoming week as of "
              /\ email_msg.html = <<"<p>">> \o email_msg.plain \o <<"</p>">>
         /\ (pc = "done" /\ exitStatus = 0) => sent

\* C5 witness: a page whose only row has 7 cells; the placeholder report was
\* sent and the run ended with status 0.
C5_Witness ==
    /\ page.status = "ok"
    /\ page.bodies # <<>>
    /\ \E b \in DOMAIN page.bodies : page.bodies[b] # <<>>
    /\ C5_NoWideRow
    /\ pc = "done"
    /\ sent
    /\ exitStatus = 0

\* the line breaks inside the fields of a record that the report renders
C6_FieldTokens(ipo, tok) ==
    CountTok(ipo.date, tok) + CountTok(ipo.symbol, tok) + CountTok(ipo.company, tok)
        + CountTok(ipo.exchange, tok) + CountTok(ipo.price_range, tok)
        + CountTok(ipo.shares_offered, tok) + CountTok(ipo.deal_size, tok)
        + CountTok(ipo.market_cap, tok)

RECURSIVE C6_InFields(_, _)
C6_InFields(ipos, tok) ==
    IF ipos = <<>> THEN 0
    ELSE C6_FieldTokens(Head(ipos), tok) + C6_InFields(Tail(ipos), tok)

\* the report of the empty sequence: the one sentence, with the as-of date
C6_EmptyReport ==
    (pc = "send" /\ upcoming_ipos = <<>>) =>
        /\ email_msg.plain
             = <<"There are no IPOs scheduled within the upcoming week as of ">>
                 \o strftime(now) \o <<".">>
        /\ email_msg.html = <<"<p>">> \o email_msg.plain \o <<"</p>">>

\* C6 as stated: for n > 0 records the plain-text body has n + 1 lines and the
\* HTML body n + 1 row markers; for none, both bodies are the one sentence.
C6_LinesAreRecordsPlusOne ==
    /\ (pc = "send" /\ upcoming_ipos # <<>>) =>
         /\ LineCount(email_msg.plain) = Len(upcoming_ipos) + 1
         /\ CountTok(email_msg.html, "<tr>") = Len(upcoming_ipos) + 1
    /\ C6_EmptyReport

\* C6 as amended: for n > 0 records the plain-text body has n + 2 lines (the
\* column titles, the line of dashes that the header carries, one line per
\* record) and the HTML body n + 1 row markers (the header row, one per
\* record), not counting line breaks and markers inside the field values; for
\* none, both bodies are the one sentence with the as-of date.
C6_LinesAreRecordsPlusTwo ==
    /\ (pc = "send" /\ upcoming_ipos # <<>>) =>
         /\ LineCount(email_msg.plain)
              = Len(upcoming_ipos) + 2 + C6_InFields(upcoming_ipos, "\n")
         /\ CountTok(email_msg.html, "<tr>")
              = Len(upcoming_ipos) + 1 + C6_InFields(upcoming_ipos, "<tr>")
    /\ C6_EmptyReport

\* C6 witness: two plain records give 4 lines and 3 row markers.
C6_Witness ==
    /\ pc = "send"
    /\ upcoming_ipos = <<Ipo(DateText("Feb", "28", "2024"), "AAAA"),
                         Ipo(DateText("Mar", "1", "2024"), "BBBB")>>
    /\ LineCount(email_msg.plain) = 4
    /\ CountTok(email_msg.html, "<tr>") = 3

\* C7: the SMTP connection is open only inside send_email's with block; once
\* send_email has returned or raised (the run has ended, whether sendmail
\* succeeded, login failed or sendmail failed) it is not open, and a session
\* that was started has been closed.
C7_ConnectionClosedAfterSend ==
    /\ conn = "open" => InSmtpSession
    /\ InSmtpSession => conn = "open"
    /\ pc = "done" => conn # "open"
    /\ (pc = "done" /\ smtpSessions > 0 /\ error # "OSError") => conn = "closed"

\* C7 witness: login failed and the run ended with the connection closed.
C7_Witness ==
    /\ pc = "done"
    /\ error = "SMTPAuthenticationError"
    /\ smtpSessions = 1
    /\ conn = "closed"

\* C8: the stages run in the order fetch, filter, compose, dispatch, each at
\* most once and only after the one before returned; there is at most one
\* HTTP GET and one SMTP session; after a failure nothing more runs.
C8_StagesOnceInOrder ==
    /\ Len(stages) <= Len(PipelineOrder)
    /\ stages = SubSeq(PipelineOrder, 1, Len(stages))
    /\ httpGets = (IF stages = <<>> THEN 0 ELSE 1)
    /\ smtpSessions <= 1
    /\ smtpSessions = 1 => stages = PipelineOrder
    /\ pc = "fetch" => stages = <<>>
    /\ pc = "filter" => stages = <<"fetch">>
    /\ pc = "compose" => stages = <<"fetch", "filter">>
    /\ pc = "send" => stages = <<"fetch", "filter", "compose">>
    /\ InSmtpSession => stages = PipelineOrder
    /\ pc # "done" => (error = "none" /\ exitStatus = -1)
    /\ error # "none" => (pc = "done" /\ exitStatus = 1)
    /\ pc = "done" => ~ENABLED Step

\* C8 witness: the GET failed; the run ended after the one request, with no
\* other stage started.
C8_Witness ==
    /\ pc = "done"
    /\ error = "HTTPError"
    /\ stages = <<"fetch">>
    /\ httpGets = 1
    /\ smtpSessions = 0

\* C9 as stated: every record comes from a row of exactly 8 or 9 cells: there
\* are as many records as such rows.
C9_OnlyEightOrNineCells ==
    pc = "filter" =>
        Len(all_ipos)
          = Cardinality({i \in DOMAIN FlatRows(page.bodies) :
                           Len(FlatRows(page.bodies)[i]) \in {8, 9}})

\* C9 as amended: every record comes from a row of at least 8 cells, and a
\* row of 10 or more cells produces a record too, made of its first 9 cells.
C9_EightCellsOrMore ==
    pc = "filter" =>
        LET rows == FlatRows(page.bodies)
            wide == {i \in DOMAIN rows : ~(Len(rows[i]) <= 7)}
        IN /\ Len(all_ipos) = Cardinality(wide)
           /\ \A k \in DOMAIN all_ipos :
                LET cells == rows[Nth(wide, k)]
                IN /\ all_ipos[k].symbol = cells[2]
                   /\ Len(cells) >= 10 => all_ipos[k].revenue = cells[9]

\* C9 witness: a page whose only row has 10 cells yields that row's record.
C9_Witness ==
    /\ pc = "filter"
    /\ page.bodies = <<<<Row(<<"TBD">>, "TENC", 10)>>>>
    /\ Len(all_ipos) = 1
    /\ all_ipos[1].symbol = <<"TENC">>
    /\ all_ipos[1].revenue = <<"$20.0M">>

\* every record of the report is dated within [today, today + 7 days] of the
\* filter stage
C10_ListedWithinFilterWindow ==
    \A i \in DOMAIN upcoming_ipos :
        /\ parse_date(upcoming_ipos[i].date).ok
        /\ \E n \in 0..DAYS_AHEAD :
             parse_date(upcoming_ipos[i].date).date = DaysLater(today, n)

\* C10 as stated: in a run that sends an email, the as-of date of the subject
\* and bodies is the today of the filter stage, in the same time zone, so
\* that every record listed is dated within [as-of date, as-of date + 7 days].
C10_AsOfDateIsFilterToday ==
    sent =>
        /\ compose_tz = filter_tz
        /\ email_msg.subject = Subject(strftime(today))
        /\ C10_ListedWithinFilterWindow

\* C10 as amended: in a run that sends an email, both stages use the same
\* time zone and every record listed is dated within [today, today + 7 days]
\* for the today of the filter stage; the as-of date is the date at the compose
\* stage, which is that today when no midnight passes between the two stages
\* and the date so many midnights later when some do.
C10_AsOfDateIsComposeDate ==
    sent =>
        /\ compose_tz = filter_tz
        /\ C10_ListedWithinFilterWindow
        /\ \E n \in 0..ticks :
             /\ email_msg.subject = Subject(strftime(DaysLater(today, n)))
             /\ upcoming_ipos = <<>> =>
                  email_msg.plain = NoIposSentence(strftime(DaysLater(today, n)))
        /\ ticks = 0 => email_msg.subject = Subject(strftime(today))

\* C10 witness: a report sent with an as-of date of Feb 29, 2024 that lists a
\* record dated Feb 28, 2024, the today of the filter stage.
C10_Witness ==
    /\ sent
    /\ today = [y |-> 2024, m |-> 2, d |-> 28]
    /\ email_msg.subject = Subject(DateText("February", "29", "2024"))
    /\ \E i \in DOMAIN upcoming_ipos :
         upcoming_ipos[i].date = DateText("Feb", "28", "2024")

====
